---- MODULE Spec2Model ----
(***************************************************************************)
(* Model of the ensync "simple" browser example: the Browser object (the   *)
(* window registry, the two profiles, the download handler connections),   *)
(* the BaseBrowserWindow / BrowserWindow handlers and run_main.            *)
(***************************************************************************)
EXTENDS Integers, Sequences, FiniteSets, TLC

VARIABLES
    windows,        \* Browser._windows: insertion-ordered dict, <<key, window>> pairs
    objs,           \* every window object constructed so far, by serial number
    profile,        \* Browser._profile: 0 while the attribute is unset, else the profile's serial
    named,          \* the QWebEngineProfile(name) objects constructed, by serial number
    dp_conn,        \* downloadRequested connections of the default profile to this Browser
    lock,           \* Browser._state_lock: the thread that holds the RLock and how often
    iter,           \* a generator returned by each_window() that is suspended, if any
    last_close,     \* the last close event handled
    last_download,  \* the last download request raised by a profile
    last_call,      \* the last get_profile call and what it returned
    error,          \* exception raised by the last handler ("none" when it completed)
    last_ui,        \* the last notification delivered to a window handler
    modal,          \* the modal dialogs open, innermost last: each runs a nested event loop
    main            \* run_main: its locals and its position

vars == <<windows, objs, profile, named, dp_conn, lock, iter,
          last_close, last_download, last_call, error, last_ui, modal, main>>

----------------------------------------------------------------------------
(* Bounds *)

MaxWindows == 2     \* window objects constructed in one behaviour
MaxAddrs == 2       \* distinct values id() can return for live window objects
MaxTabs == 2        \* tabs the user adds to a window
MaxArgs == 4        \* command-line arguments after the program name
MaxRunArgs == 3     \* command-line arguments of the runs that enter the event loop
MaxMatches == 2     \* matches a find-in-page result reports
MaxCloses == 2      \* close events accepted by one window

----------------------------------------------------------------------------
(* Optional values: None and a present value *)

None == <<>>
Some(x) == <<x>>

\* Python truth value of an Optional[str]
Truthy(opt) == opt # None /\ opt[1] # ""

----------------------------------------------------------------------------
(* threading.RLock, as Browser._state_lock uses it.  Every handler of the  *)
(* program runs on the thread of the UI event loop.                        *)

UiThread == "ui"

Unlocked == [owner |-> "", depth |-> 0]

\* acquire() does not block: nobody holds the lock, or the caller holds it
RLock_admits(l, thread) == l.depth = 0 \/ l.owner = thread

RLock_acquire(l, thread) == [owner |-> thread, depth |-> l.depth + 1]

RLock_release(l) ==
    IF l.depth = 1 THEN Unlocked ELSE [l EXCEPT !.depth = @ - 1]

\* "with self._state_lock:" entered and left by a handler: the lock as
\* the block leaves it
with_state_lock(l) == RLock_release(RLock_acquire(l, UiThread))

----------------------------------------------------------------------------
(* Profiles.  0 is QWebEngineProfile.defaultProfile(); n > 0 is the n-th   *)
(* QWebEngineProfile(name) object constructed by get_profile.              *)

DefaultProfile == 0

\* Qt 6: the default profile is off the record, a named profile is not
isOffTheRecord(p) == p = DefaultProfile

\* a profile just constructed by get_profile: configured once, its
\* downloadRequested connected once to the download manager widget
NewProfile == [configured |-> 1, connections |-> 1]

\* get_profile without the assignment self._profile = profile
get_profile_unstored(private, prof, profs, l) ==
    IF private
    THEN [ret |-> DefaultProfile, profile |-> prof, named |-> profs, lock |-> l]
    ELSE [ret |-> Len(profs) + 1,
          profile |-> prof,
          named |-> Append(profs, NewProfile),
          lock |-> with_state_lock(l)]

\* get_profile connecting the download handler on every call
get_profile_reconnect(private, prof, profs, l) ==
    IF private
    THEN [ret |-> DefaultProfile, profile |-> prof, named |-> profs, lock |-> l]
    ELSE IF prof # 0
         THEN [ret |-> prof, profile |-> prof,
               named |-> [profs EXCEPT ![prof].connections = @ + 1],
               lock |-> with_state_lock(l)]
         ELSE [ret |-> Len(profs) + 1,
               profile |-> Len(profs) + 1,
               named |-> Append(profs, NewProfile),
               lock |-> with_state_lock(l)]

\* Browser.get_profile: the returned profile, and the new values of
\* _profile and of the named profiles
get_profile(private, prof, profs, l) ==
    IF private
    THEN [ret |-> DefaultProfile, profile |-> prof, named |-> profs, lock |-> l]
    ELSE IF prof # 0
         THEN [ret |-> prof, profile |-> prof, named |-> profs,
               lock |-> with_state_lock(l)]
         ELSE [ret |-> Len(profs) + 1,
               profile |-> Len(profs) + 1,
               named |-> Append(profs, NewProfile),
               lock |-> with_state_lock(l)]

\* number of slots of this Browser's download manager connected to p
Connections(p) == IF p = DefaultProfile THEN dp_conn ELSE named[p].connections

----------------------------------------------------------------------------
(* Window title *)

TitleSep == " - "

\* the title handler ignoring whether the title is empty
handle_web_view_title_changed_joined(p, title) ==
    LET suffix == IF isOffTheRecord(p) THEN "Simple (Incognito)" ELSE "Simple"
    IN  IF title # None THEN title[1] \o TitleSep \o suffix ELSE suffix

handle_web_view_title_changed(p, title) ==
    LET suffix == IF isOffTheRecord(p) THEN "Simple (Incognito)" ELSE "Simple"
    IN  IF Truthy(title) THEN title[1] \o TitleSep \o suffix ELSE suffix

----------------------------------------------------------------------------
(* Tabs *)

BlankTab == [kind |-> "blank", arg |-> "", background |-> FALSE, doomed |-> FALSE]

\* BaseBrowserWindow.__init__ (and BrowserWindow.__init__)
NewWindow(kind, p, addr) ==
    [kind |-> kind,
     profile |-> p,
     addr |-> addr,
     tabs |-> <<BlankTab>>,
     title |-> handle_web_view_title_changed(p, None),
     title_arg |-> None,
     status |-> "",
     last_search |-> "",
     find |-> None,
     stop_reload |-> [data |-> None, icon |-> None, tooltip |-> ""],
     progress_bar |-> -1,
     progress |-> None,
     enabled |-> [_history_back_action |-> TRUE, _history_forward_action |-> TRUE,
                  _reload_action |-> TRUE, _stop_action |-> TRUE],
     visible |-> FALSE,
     life |-> "open",
     private |-> FALSE,
     remove_slots |-> 0,
     about_to_close |-> 0,
     delete_later |-> 0,
     delete_level |-> 0,
     window_menu |-> <<>>,
     close_action |-> "Quit"]

----------------------------------------------------------------------------
(* The registry: a dict keyed by id(window) *)

Keys(reg) == {reg[i][1] : i \in 1..Len(reg)}

KeyIndex(reg, key) == CHOOSE i \in 1..Len(reg) : reg[i][1] = key

\* self._windows[key] = w
DictSet(reg, key, w) ==
    IF key \in Keys(reg)
    THEN [reg EXCEPT ![KeyIndex(reg, key)] = <<key, w>>]
    ELSE Append(reg, <<key, w>>)

\* self._windows.pop(key, None)
DictPop(reg, key) ==
    IF key \in Keys(reg)
    THEN LET k == KeyIndex(reg, key)
         IN  [i \in 1..(Len(reg) - 1) |-> IF i < k THEN reg[i] ELSE reg[i + 1]]
    ELSE reg

\* the registry and the lock as _add_window leaves them
_add_window(reg, l, w, addr) ==
    [windows |-> DictSet(reg, addr, w), lock |-> with_state_lock(l)]

\* _remove_window emptying the registry
_remove_window_clear(reg, l, sender_addr) ==
    [windows |-> <<>>, lock |-> with_state_lock(l)]

\* _remove_window popping the oldest entry instead of the sender's
_remove_window_oldest(reg, l, sender_addr) ==
    [windows |-> IF reg = <<>> THEN reg ELSE Tail(reg),
     lock |-> with_state_lock(l)]

\* the registry and the lock as _remove_window leaves them; sender is the
\* window whose about_to_close signal is being delivered
_remove_window(reg, l, sender_addr) ==
    [windows |-> DictPop(reg, sender_addr), lock |-> with_state_lock(l)]

Wids == DOMAIN objs

\* values id() can return for a new object: not the address of a live one
FreeAddrs == (1..MaxAddrs) \ {objs[w].addr : w \in {v \in Wids : objs[v].life # "deleted"}}

----------------------------------------------------------------------------
(* Browser: window creation *)

NoIter == [active |-> FALSE, used |-> 0, count |-> 0, pos |-> 0, value |-> None]
NoClose == [window |-> 0, count |-> 0, answer |-> "NotAsked", accepted |-> FALSE]
NoDownload == [profile |-> 0, delivered |-> 0, seq |-> 0]
NoCall == [private |-> FALSE, ret |-> 0, seq |-> 0]
NoMain == [pc |-> "none"]
NoUi == [handler |-> "none", window |-> 0, arg |-> None, seq |-> 0]

\* Browser.__init__
BrowserInit ==
    /\ windows = <<>>
    /\ objs = <<>>
    /\ profile = 0
    /\ named = <<>>
    /\ dp_conn = 1
    /\ lock = Unlocked
    /\ iter = NoIter
    /\ last_close = NoClose
    /\ last_download = NoDownload
    /\ last_call = NoCall
    /\ error = "none"
    /\ last_ui = NoUi
    /\ modal = <<>>

\* a window as create_* leaves it: constructed with the profile, its
\* about_to_close connected to _remove_window, shown or not
Created(kind, private, show, p, a) ==
    [NewWindow(kind, p, a) EXCEPT
        !.private = private,
        !.remove_slots = 1,
        !.visible = show]

\* the shared body of create_hidden_window, create_window and
\* create_dev_tools_window: get_profile, construct, _add_window, connect
Create(kind, private, show) ==
    /\ Len(objs) < MaxWindows
    /\ RLock_admits(lock, UiThread)
    /\ \E a \in FreeAddrs :
          LET gp == get_profile(private, profile, named, lock)
              w == Len(objs) + 1
              added == _add_window(windows, gp.lock, w, a)
          IN  /\ objs' = Append(objs, Created(kind, private, show, gp.ret, a))
              /\ windows' = added.windows
              /\ lock' = added.lock
              /\ profile' = gp.profile
              /\ named' = gp.named
    /\ error' = "none"
    /\ UNCHANGED <<modal, dp_conn, iter, last_close, last_download, last_call, last_ui, main>>

create_hidden_window(private) == Create("BrowserWindow", private, FALSE)

create_window(private) == Create("BrowserWindow", private, TRUE)

create_dev_tools_window(private) == Create("DevToolsWindow", private, TRUE)

\* a direct call of Browser.get_profile
GetProfile(private) ==
    /\ private \/ RLock_admits(lock, UiThread)
    /\ LET gp == get_profile(private, profile, named, lock)
       IN  /\ profile' = gp.profile
           /\ named' = gp.named
           /\ lock' = gp.lock
           /\ last_call' = [private |-> private, ret |-> gp.ret,
                            seq |-> 1 - last_call.seq]
    /\ error' = "none"
    /\ UNCHANGED <<modal, windows, objs, dp_conn, iter, last_close,
                   last_download, last_ui, main>>

\* the profile objects that exist: the toolkit's default profile and the
\* ones get_profile has constructed
Profiles == {DefaultProfile} \cup (1..Len(named))

\* a profile raises downloadRequested: every connected slot runs once
DownloadRequested(p) ==
    /\ p \in Profiles
    /\ last_download' = [profile |-> p, delivered |-> Connections(p),
                         seq |-> 1 - last_download.seq]
    /\ error' = "none"
    /\ UNCHANGED <<modal, windows, objs, profile, named, dp_conn, lock, iter,
                   last_close, last_call, last_ui, main>>

----------------------------------------------------------------------------
(* BaseBrowserWindow.closeEvent *)

\* whether the confirmation dialog is shown
closeEvent_asks(count) == count > 1

\* closeEvent accepting whatever the answer is
closeEvent_accepts_always(count, answer) == TRUE

\* whether the event is accepted
closeEvent_accepts(count, answer) == ~(closeEvent_asks(count) /\ answer = "No")

\* the dialogs of window w that are open
DialogsOf(w) == {i \in 1..Len(modal) : modal[i].window = w}

\* whether closeEvent of w is waiting for its confirmation dialog; the
\* toolkit sends no further close event to a window that is in closeEvent
InCloseEvent(w) == \E i \in DialogsOf(w) : modal[i].kind = "closeEvent"

\* the innermost dialog is closed
Popped == SubSeq(modal, 1, Len(modal) - 1)

\* closeEvent from the answer on (lines 180-186): count is the tab count
\* read at line 174
CloseFinish(w, count, answer) ==
    LET accepted == closeEvent_accepts(count, answer)
    IN  /\ last_close' = [window |-> w, count |-> count, answer |-> answer,
                          accepted |-> accepted]
        /\ IF accepted
           THEN /\ objs' = [objs EXCEPT ![w].about_to_close = @ + 1,
                                        ![w].delete_later = @ + 1,
                                        ![w].delete_level = Len(modal'),
                                        ![w].visible = FALSE,
                                        ![w].life = "closing"]
                /\ IF objs[w].remove_slots > 0
                   THEN LET removed == _remove_window(windows, lock, objs[w].addr)
                        IN  /\ RLock_admits(lock, UiThread)
                            /\ windows' = removed.windows
                            /\ lock' = removed.lock
                   ELSE UNCHANGED <<windows, lock>>
           ELSE UNCHANGED <<objs, windows, lock>>

\* the body of closeEvent up to the dialog, for a window that can still
\* receive events: the count is read and, above one tab, the confirmation
\* dialog opens and runs its event loop; otherwise the event is accepted
CloseBody(w) ==
    /\ ~InCloseEvent(w)
    /\ LET count == Len(objs[w].tabs)
       IN  IF closeEvent_asks(count)
           THEN /\ modal' = Append(modal, [kind |-> "closeEvent", window |-> w,
                                           count |-> count])
                /\ UNCHANGED <<objs, windows, lock, last_close>>
           ELSE /\ modal' = modal
                /\ CloseFinish(w, count, "NotAsked")
    /\ error' = "none"
    /\ UNCHANGED <<profile, named, dp_conn, iter, last_download,
                   last_call, last_ui, main>>

closeEvent(w) ==
    /\ objs[w].life = "open"
    /\ CloseBody(w)

\* a further close event for a window whose close was accepted and whose
\* deletion is still pending: it arrives in an event loop that does not
\* deliver the deletion
closeEventAgain(w) ==
    /\ objs[w].life = "closing"
    /\ objs[w].about_to_close < MaxCloses
    /\ Len(modal) >= objs[w].delete_level
    /\ CloseBody(w)

\* the innermost dialog is the confirmation of a closeEvent and the user
\* answers it: QMessageBox.warning returns and closeEvent goes on
closeEventAnswered(answer) ==
    /\ modal # <<>>
    /\ modal[Len(modal)].kind = "closeEvent"
    /\ modal' = Popped
    /\ CloseFinish(modal[Len(modal)].window, modal[Len(modal)].count, answer)
    /\ error' = "none"
    /\ UNCHANGED <<profile, named, dp_conn, iter, last_download,
                   last_call, last_ui, main>>

\* the event loop runs the deletion scheduled by deleteLater(): a loop no
\* deeper than the one whose handler scheduled it, and not the loop of a
\* dialog of the window
DeferredDelete(w) ==
    /\ objs[w].life = "closing"
    /\ Len(modal) <= objs[w].delete_level
    /\ DialogsOf(w) = {}
    /\ objs' = [objs EXCEPT ![w].life = "deleted"]
    /\ error' = "none"
    /\ UNCHANGED <<modal, windows, profile, named, dp_conn, lock, iter,
                   last_close, last_download, last_call, last_ui, main>>

\* BrowserWindow._new_tab
_new_tab(w) ==
    /\ objs[w].life = "open"
    /\ objs[w].kind = "BrowserWindow"
    /\ Len(objs[w].tabs) < MaxTabs
    /\ objs' = [objs EXCEPT ![w].tabs = Append(@, BlankTab)]
    /\ error' = "none"
    /\ UNCHANGED <<modal, windows, profile, named, dp_conn, lock, iter,
                   last_close, last_download, last_call, last_ui, main>>

\* TabWidget.close_tab(index): the tab at the index leaves the widget
close_tab(tabs, index) ==
    [i \in 1..(Len(tabs) - 1) |-> IF i < index THEN tabs[i] ELSE tabs[i + 1]]

\* BrowserWindow._close_current_tab, index being the current index of the
\* tab widget
_close_current_tab(w, index) ==
    /\ objs[w].life = "open"
    /\ objs[w].kind = "BrowserWindow"
    /\ index \in 1..Len(objs[w].tabs)
    /\ objs' = [objs EXCEPT ![w].tabs = close_tab(@, index)]
    /\ error' = "none"
    /\ UNCHANGED <<modal, windows, profile, named, dp_conn, lock, iter,
                   last_close, last_download, last_call, last_ui, main>>

----------------------------------------------------------------------------
(* Browser.each_window: a generator over self._windows.values() that holds *)
(* the lock from its first next() until it ends.  The iterator of a dict   *)
(* walks the entries in the order of their insertion and remembers the     *)
(* size the dict had when it was made and how many entries it has yielded; *)
(* a window is inserted once, when it is created, so the entries past the  *)
(* iterator are those of the windows created after the window it yielded   *)
(* last.                                                                   *)

\* the windows a caller that exhausts the generator at once receives
each_window(reg) == [i \in 1..Len(reg) |-> reg[i][2]]

\* the entries the iterator has not passed
Ahead(reg, it) == {i \in 1..Len(reg) : reg[i][2] > it.pos}

\* one step of the iterator of the dict, the generator holding the lock:
\* held is the lock and it the iterator as the step finds them
values_next(held, it) ==
    IF Len(windows) # it.used
    THEN /\ error' = "RuntimeError"
         /\ lock' = RLock_release(held)
         /\ iter' = NoIter
    ELSE IF Ahead(windows, it) = {}
         THEN /\ error' = "none"
              /\ lock' = RLock_release(held)
              /\ iter' = NoIter
         ELSE IF it.count = it.used
         THEN /\ error' = "RuntimeError"
              /\ lock' = RLock_release(held)
              /\ iter' = NoIter
         ELSE LET i == CHOOSE k \in Ahead(windows, it) :
                           \A j \in Ahead(windows, it) : k <= j
              IN  /\ error' = "none"
                  /\ lock' = held
                  /\ iter' = [it EXCEPT !.pos = windows[i][2],
                                        !.count = @ + 1,
                                        !.value = Some(windows[i][2])]

\* next() on a generator each_window() returned.  The first next() enters
\* the with-block and makes the iterator of the dict; every next() asks
\* the iterator for a window, which yields it, ends the generator, or
\* raises because the size or the keys of the dict have changed
each_window_next ==
    /\ IF iter.active
       THEN values_next(lock, iter)
       ELSE /\ RLock_admits(lock, UiThread)
            /\ values_next(RLock_acquire(lock, UiThread),
                           [active |-> TRUE, used |-> Len(windows), count |-> 0,
                            pos |-> 0, value |-> None])
    /\ UNCHANGED <<modal, windows, objs, profile, named, dp_conn, last_close,
                   last_download, last_call, last_ui, main>>

\* close() on the suspended generator, or its collection when the caller
\* drops it: GeneratorExit leaves the with-block
each_window_close ==
    /\ iter.active
    /\ lock' = RLock_release(lock)
    /\ iter' = NoIter
    /\ error' = "none"
    /\ UNCHANGED <<modal, windows, objs, profile, named, dp_conn, last_close,
                   last_download, last_call, last_ui, main>>

\* the entries _populate_window_menu adds for the windows each_window()
\* yields: index counts them, title is the title of the populating window
window_menu_entries(self, title, yielded) ==
    [i \in 1..Len(yielded) |->
        [text |-> title, data |-> i - 1, checkable |-> TRUE,
         checked |-> (yielded[i] = self), window |-> yielded[i]]]

\* BrowserWindow._populate_window_menu: the Window menu of w is about to
\* show.  The loop runs to its end inside the handler; each_window takes
\* the lock and releases it
PopulateWindowMenu(w) ==
    /\ objs[w].life = "open"
    /\ objs[w].kind = "BrowserWindow"
    /\ RLock_admits(lock, UiThread)
    /\ objs' = [objs EXCEPT ![w].window_menu =
                    window_menu_entries(w, objs[w].title, each_window(windows))]
    /\ lock' = with_state_lock(lock)
    /\ last_ui' = [handler |-> "_populate_window_menu", window |-> w,
                   arg |-> None, seq |-> 1 - last_ui.seq]
    /\ error' = "none"
    /\ UNCHANGED <<modal, windows, profile, named, dp_conn, iter, last_close,
                   last_download, last_call, main>>

----------------------------------------------------------------------------
(* The window registry under the UI event loop: creation, tabs, closing *)

Init ==
    /\ BrowserInit
    /\ main = NoMain

Next ==
    \/ \E private \in BOOLEAN : create_hidden_window(private)
    \/ \E private \in BOOLEAN : create_window(private)
    \/ \E private \in BOOLEAN : create_dev_tools_window(private)
    \/ \E w \in Wids : closeEvent(w)
    \/ \E w \in Wids : DeferredDelete(w)

Spec == Init /\ [][Next]_vars

----------------------------------------------------------------------------
(* Closing a window that has tabs: the confirmation dialog and what the   *)
(* nested event loop of the dialog delivers meanwhile                     *)

ConfirmNext ==
    \/ create_window(FALSE)
    \/ \E w \in Wids : _new_tab(w)
    \/ \E w \in Wids, index \in 1..MaxTabs : _close_current_tab(w, index)
    \/ \E w \in Wids : closeEvent(w)
    \/ \E answer \in {"Yes", "No"} : closeEventAnswered(answer)

ConfirmSpec == Init /\ [][ConfirmNext]_vars

----------------------------------------------------------------------------
(* The profiles and their download handler connections *)

ProfileNext ==
    \/ \E private \in BOOLEAN : create_hidden_window(private)
    \/ \E private \in BOOLEAN : create_window(private)
    \/ \E private \in BOOLEAN : create_dev_tools_window(private)
    \/ \E private \in BOOLEAN : GetProfile(private)
    \/ \E p \in 0..Len(named) : DownloadRequested(p)
    \/ \E w \in Wids : closeEvent(w)
    \/ \E w \in Wids : DeferredDelete(w)

ProfileSpec == Init /\ [][ProfileNext]_vars

----------------------------------------------------------------------------
(* Closing: every close event a window can receive before it is deleted *)

CloseNext ==
    \/ \E private \in BOOLEAN : create_window(private)
    \/ \E private \in BOOLEAN : create_dev_tools_window(private)
    \/ \E w \in Wids : closeEvent(w)
    \/ \E w \in Wids : closeEventAgain(w)
    \/ \E w \in Wids : DeferredDelete(w)

CloseSpec == Init /\ [][CloseNext]_vars

----------------------------------------------------------------------------
(* The File menu and the entries of the Window menu *)

\* "Quit" if last_win else "Close Window": a window object is true, None
\* is false
close_action_text(last_win) ==
    IF last_win # None THEN "Quit" ELSE "Close Window"

\* last_win after the loop "for w in each_window(): last_win = w"
last_window(yielded) ==
    IF yielded = <<>> THEN None ELSE Some(yielded[Len(yielded)])

\* BrowserWindow._update_close_action_text: the File menu of w is about
\* to show.  The loop runs to its end inside the handler; each_window takes
\* the lock and releases it
UpdateCloseActionText(w) ==
    /\ objs[w].life = "open"
    /\ objs[w].kind = "BrowserWindow"
    /\ RLock_admits(lock, UiThread)
    /\ objs' = [objs EXCEPT ![w].close_action =
                    close_action_text(last_window(each_window(windows)))]
    /\ lock' = with_state_lock(lock)
    /\ last_ui' = [handler |-> "_update_close_action_text", window |-> w,
                   arg |-> None, seq |-> 1 - last_ui.seq]
    /\ error' = "none"
    /\ UNCHANGED <<modal, windows, profile, named, dp_conn, iter, last_close,
                   last_download, last_call, main>>

\* tuple(self._browser.each_window())[offset]
handle_show_window_triggered(reg, offset) ==
    IF offset < Len(each_window(reg))
    THEN [error |-> "none", window |-> Some(each_window(reg)[offset + 1])]
    ELSE [error |-> "IndexError", window |-> None]

\* entry k of the Window menu of w is triggered: the window found at the
\* entry's offset is activated
ShowWindowTriggered(w, k) ==
    /\ objs[w].life = "open"
    /\ objs[w].kind = "BrowserWindow"
    /\ k \in 1..Len(objs[w].window_menu)
    /\ RLock_admits(lock, UiThread)
    /\ lock' = with_state_lock(lock)
    /\ LET action == objs[w].window_menu[k]
           r == handle_show_window_triggered(windows, action.data)
       IN  /\ error' = r.error
           /\ last_ui' = [handler |-> "handle_show_window_triggered", window |-> w,
                          arg |-> Some([action |-> action, activated |-> r.window]),
                          seq |-> 1 - last_ui.seq]
    /\ UNCHANGED <<modal, windows, objs, profile, named, dp_conn, iter,
                   last_close, last_download, last_call, main>>

\* the menus of the windows under the UI event loop
MenuBarNext ==
    \/ \E private \in BOOLEAN : create_window(private)
    \/ \E private \in BOOLEAN : create_dev_tools_window(private)
    \/ \E w \in Wids : closeEvent(w)
    \/ \E w \in Wids : DeferredDelete(w)
    \/ \E w \in Wids : PopulateWindowMenu(w)
    \/ \E w \in Wids : UpdateCloseActionText(w)
    \/ \E w \in Wids, k \in 1..MaxWindows : ShowWindowTriggered(w, k)

MenuBarSpec == Init /\ [][MenuBarNext]_vars

----------------------------------------------------------------------------
(* Iteration over the registry, interleaved with creation and closing: a   *)
(* caller on the UI thread takes windows from each_window() one at a time  *)
(* and lets windows be created and closed in between                       *)

MenuNext ==
    \/ \E private \in BOOLEAN : create_window(private)
    \/ \E private \in BOOLEAN : create_dev_tools_window(private)
    \/ \E w \in Wids : closeEvent(w)
    \/ \E w \in Wids : DeferredDelete(w)
    \/ each_window_next
    \/ each_window_close
    \/ \E w \in Wids : PopulateWindowMenu(w)

MenuSpec == Init /\ [][MenuNext]_vars

----------------------------------------------------------------------------
(* Window handlers: title and find-in-page *)

Titles == {None, Some(""), Some("Qt")}
SearchTexts == {"", "qt"}
FindResults == {[numberOfMatches |-> n, activeMatch |-> a] :
                   n \in 0..MaxMatches, a \in 0..MaxMatches}

\* the attributes BaseBrowserWindow.__init__ assigns on the instance
InstanceAttrs == {"_last_search", "_browser", "_profile", "_tab_widget"}

\* self.<name>: the value, or AttributeError for a name never assigned
GetAttr(win, name) ==
    IF name \in InstanceAttrs
    THEN [error |-> "none",
          value |-> IF name = "_last_search" THEN win.last_search ELSE ""]
    ELSE [error |-> "AttributeError", value |-> ""]

Quote == "\""

\* BaseBrowserWindow.handle_find_text_finished: the message shown, or the
\* exception raised before anything is shown
handle_find_text_finished(win, result) ==
    IF result.numberOfMatches = 0
    THEN LET ls == GetAttr(win, "_lastSearch")
         IN  [error |-> ls.error,
              message |-> Quote \o ls.value \o Quote \o " not found."]
    ELSE LET ls == GetAttr(win, "_last_search")
         IN  [error |-> ls.error,
              message |-> Quote \o ls.value \o Quote \o " found: "
                          \o ToString(result.activeMatch) \o "/"
                          \o ToString(result.numberOfMatches)]

\* TabWidget.title_changed reaches handle_web_view_title_changed
TitleChanged(w, title) ==
    /\ objs[w].life = "open"
    /\ objs' = [objs EXCEPT
                   ![w].title = handle_web_view_title_changed(objs[w].profile, title),
                   ![w].title_arg = title]
    /\ last_ui' = [handler |-> "handle_web_view_title_changed", window |-> w,
                   arg |-> title, seq |-> 1 - last_ui.seq]
    /\ error' = "none"
    /\ UNCHANGED <<modal, windows, profile, named, dp_conn, lock, iter, last_close,
                   last_download, last_call, main>>

\* WebView.findText(text[, FindBackward]) on the current tab: the search
\* the page runs now; n tells a repeated call from the one before
findText(prev, text, backward) ==
    Some([text |-> text, backward |-> backward,
          n |-> IF prev = None THEN 0 ELSE 1 - prev[1].n])

\* BaseBrowserWindow.handle_find_action_triggered: tab and tab2 tell
\* whether current_tab() returned a view at its first and at its second
\* call, (search, ok) is what the dialog returned in between
\* BaseBrowserWindow.current_tab(): whether it returns a tab.  It is the
\* current view of the tab widget, None when the widget holds no tab
current_tab(win) == win.tabs # <<>>

\* BaseBrowserWindow.handle_find_action_triggered: tab is what the test
\* of current_tab() at line 165 finds, tab2 what line 171 finds after the
\* dialog has returned
handle_find_action_triggered(win, tab, search, ok, tab2) ==
    IF ~tab
    THEN [win |-> win, error |-> "none"]
    ELSE IF ok /\ search # ""
         THEN IF tab2
              THEN [win |-> [win EXCEPT !.last_search = search,
                                        !.find = findText(win.find, search, FALSE)],
                    error |-> "none"]
              ELSE [win |-> [win EXCEPT !.last_search = search],
                    error |-> "AttributeError"]
         ELSE [win |-> win, error |-> "none"]

_find_next(win, tab) ==
    IF tab /\ win.last_search # ""
    THEN [win EXCEPT !.find = findText(win.find, win.last_search, FALSE)]
    ELSE win

_find_previous(win, tab) ==
    IF tab /\ win.last_search # ""
    THEN [win EXCEPT !.find = findText(win.find, win.last_search, TRUE)]
    ELSE win

\* the Find action of the Edit menu is triggered: without a current tab
\* the handler returns, with one QInputDialog.getText opens and runs its
\* event loop
FindActionTriggered(w) ==
    /\ objs[w].life = "open"
    /\ objs[w].kind = "BrowserWindow"
    /\ DialogsOf(w) = {}
    /\ LET tab == current_tab(objs[w])
       IN  /\ modal' = IF tab
                       THEN Append(modal, [kind |-> "getText", window |-> w,
                                           count |-> 0])
                       ELSE modal
           /\ objs' = IF tab
                      THEN objs
                      ELSE [objs EXCEPT ![w] =
                               handle_find_action_triggered(@, FALSE, "", FALSE,
                                                            FALSE).win]
           /\ last_ui' = [handler |-> "handle_find_action_triggered", window |-> w,
                          arg |-> Some([tab |-> tab]), seq |-> 1 - last_ui.seq]
    /\ error' = "none"
    /\ UNCHANGED <<windows, profile, named, dp_conn, lock, iter, last_close,
                   last_download, last_call, main>>

\* the innermost dialog is the Find dialog and returns (search, ok): the
\* handler goes on from line 169, reading current_tab() again: it finds
\* the tabs as the event loop of the dialog has left them
FindDialogAnswered(search, ok) ==
    /\ modal # <<>>
    /\ modal[Len(modal)].kind = "getText"
    /\ LET w == modal[Len(modal)].window
           tab2 == current_tab(objs[w])
           r == handle_find_action_triggered(objs[w], TRUE, search, ok, tab2)
       IN  /\ objs' = [objs EXCEPT ![w] = r.win]
           /\ error' = r.error
           /\ last_ui' = [handler |-> "QInputDialog.getText", window |-> w,
                          arg |-> Some([search |-> search, ok |-> ok, tab |-> tab2]),
                          seq |-> 1 - last_ui.seq]
    /\ modal' = Popped
    /\ UNCHANGED <<windows, profile, named, dp_conn, lock, iter, last_close,
                   last_download, last_call, main>>

\* the Find Next action of the Edit menu
FindNext(w) ==
    /\ objs[w].life = "open"
    /\ objs[w].kind = "BrowserWindow"
    /\ objs' = [objs EXCEPT ![w] = _find_next(@, current_tab(@))]
    /\ last_ui' = [handler |-> "_find_next", window |-> w,
                   arg |-> Some([tab |-> current_tab(objs[w])]),
                   seq |-> 1 - last_ui.seq]
    /\ error' = "none"
    /\ UNCHANGED <<modal, windows, profile, named, dp_conn, lock, iter, last_close,
                   last_download, last_call, main>>

\* the Find Previous action of the Edit menu
FindPrevious(w) ==
    /\ objs[w].life = "open"
    /\ objs[w].kind = "BrowserWindow"
    /\ objs' = [objs EXCEPT ![w] = _find_previous(@, current_tab(@))]
    /\ last_ui' = [handler |-> "_find_previous", window |-> w,
                   arg |-> Some([tab |-> current_tab(objs[w])]),
                   seq |-> 1 - last_ui.seq]
    /\ error' = "none"
    /\ UNCHANGED <<modal, windows, profile, named, dp_conn, lock, iter, last_close,
                   last_download, last_call, main>>

\* TabWidget.find_text_finished reaches handle_find_text_finished
FindTextFinished(w, result) ==
    /\ objs[w].life = "open"
    /\ objs[w].kind = "BrowserWindow"
    /\ result.activeMatch <= result.numberOfMatches
    /\ LET r == handle_find_text_finished(objs[w], result)
       IN  /\ error' = r.error
           /\ objs' = IF r.error = "none"
                      THEN [objs EXCEPT ![w].status = r.message]
                      ELSE objs
    /\ last_ui' = [handler |-> "handle_find_text_finished", window |-> w,
                   arg |-> Some(result), seq |-> 1 - last_ui.seq]
    /\ UNCHANGED <<modal, windows, profile, named, dp_conn, lock, iter, last_close,
                   last_download, last_call, main>>

LinkTexts == {"", "http://hovered/"}

\* TabWidget.link_hovered reaches BaseBrowserWindow._show_status_message
LinkHovered(w, m) ==
    /\ objs[w].life = "open"
    /\ objs' = [objs EXCEPT ![w].status = m]
    /\ last_ui' = [handler |-> "_show_status_message", window |-> w,
                   arg |-> Some(m), seq |-> 1 - last_ui.seq]
    /\ error' = "none"
    /\ UNCHANGED <<modal, windows, profile, named, dp_conn, lock, iter, last_close,
                   last_download, last_call, main>>

FileUrls == {"", "file:///x.html"}

\* BaseBrowserWindow.handle_file_open_triggered from the return of the
\* file dialog on: a QUrl object is true even when it is empty, so setUrl
\* is called on what current_tab() returns, the tab at the index or None
handle_file_open_triggered(win, url, tab, index) ==
    IF tab
    THEN [win |-> [win EXCEPT !.tabs[index] = [@ EXCEPT !.kind = "url", !.arg = url]],
          error |-> "none"]
    ELSE [win |-> win, error |-> "AttributeError"]

\* File > Open File... is triggered: QFileDialog.getOpenFileUrl opens
FileOpenTriggered(w) ==
    /\ objs[w].life = "open"
    /\ objs[w].kind = "BrowserWindow"
    /\ DialogsOf(w) = {}
    /\ modal' = Append(modal, [kind |-> "getOpenFileUrl", window |-> w, count |-> 0])
    /\ last_ui' = [handler |-> "handle_file_open_triggered", window |-> w,
                   arg |-> None, seq |-> 1 - last_ui.seq]
    /\ error' = "none"
    /\ UNCHANGED <<windows, objs, profile, named, dp_conn, lock, iter, last_close,
                   last_download, last_call, main>>

\* the innermost dialog is the file dialog and returns url (empty when it
\* was cancelled)
FileDialogAnswered(url, index) ==
    /\ modal # <<>>
    /\ modal[Len(modal)].kind = "getOpenFileUrl"
    /\ LET w == modal[Len(modal)].window
           tab == current_tab(objs[w])
           r == handle_file_open_triggered(objs[w], url, tab, index)
       IN  /\ tab => index \in 1..Len(objs[w].tabs)
           /\ ~tab => index = 1
           /\ objs' = [objs EXCEPT ![w] = r.win]
           /\ error' = r.error
           /\ last_ui' = [handler |-> "QFileDialog.getOpenFileUrl", window |-> w,
                          arg |-> Some([url |-> url, tab |-> tab]),
                          seq |-> 1 - last_ui.seq]
    /\ modal' = Popped
    /\ UNCHANGED <<windows, profile, named, dp_conn, lock, iter, last_close,
                   last_download, last_call, main>>

\* what the user can have typed in the address bar
UserInputs == {"", "http://typed/", "typed.org"}

\* the inputs that carry a scheme
WithScheme == {"http://typed/"}

\* QUrl.fromUserInput(text): an empty text gives the empty URL, a text
\* with a scheme is kept, a host name gets the scheme http
fromUserInput(text) ==
    IF text = "" THEN ""
    ELSE IF text \in WithScheme THEN text
    ELSE "http://" \o text

\* TabWidget.set_url(url), as BrowserWindow._address_return_pressed calls
\* it: the current tab, the one at the index if there is one, loads the URL
set_url(tabs, tab, index, url) ==
    IF tab
    THEN [tabs EXCEPT ![index] = [@ EXCEPT !.kind = "url", !.arg = url]]
    ELSE tabs

\* BrowserWindow._address_return_pressed
_address_return_pressed(win, text, tab, index) ==
    [win EXCEPT !.tabs = set_url(@, tab, index, fromUserInput(text))]

\* Return is pressed in the address bar of window w, which holds text
AddressReturnPressed(w, text, index) ==
    /\ objs[w].life = "open"
    /\ objs[w].kind = "BrowserWindow"
    /\ LET tab == current_tab(objs[w])
       IN  /\ tab => index \in 1..Len(objs[w].tabs)
           /\ ~tab => index = 1
           /\ objs' = [objs EXCEPT ![w] = _address_return_pressed(@, text, tab, index)]
           /\ last_ui' = [handler |-> "_address_return_pressed", window |-> w,
                          arg |-> Some([text |-> text, tab |-> tab]),
                          seq |-> 1 - last_ui.seq]
    /\ error' = "none"
    /\ UNCHANGED <<modal, windows, profile, named, dp_conn, lock, iter,
                   last_close, last_download, last_call, main>>

\* a Browser with a browser window and a developer tools window, each
\* normal or private
UiInit ==
    \E p1, p2 \in BOOLEAN, k2 \in {"DevToolsWindow"} :
        LET g1 == get_profile(p1, 0, <<>>, Unlocked)
            first == _add_window(<<>>, g1.lock, 1, 1)
            g2 == get_profile(p2, g1.profile, g1.named, first.lock)
            second == _add_window(first.windows, g2.lock, 2, 2)
        IN  /\ objs = <<Created("BrowserWindow", p1, TRUE, g1.ret, 1),
                        Created(k2, p2, TRUE, g2.ret, 2)>>
            /\ windows = second.windows
            /\ profile = g2.profile
            /\ named = g2.named
            /\ dp_conn = 1
            /\ lock = second.lock
            /\ iter = NoIter
            /\ last_close = NoClose
            /\ last_download = NoDownload
            /\ last_call = NoCall
            /\ error = "none"
            /\ last_ui = NoUi
            /\ modal = <<>>
            /\ main = NoMain

UiNext ==
    \/ \E w \in Wids, title \in Titles : TitleChanged(w, title)
    \/ \E w \in Wids, m \in LinkTexts : LinkHovered(w, m)
    \/ \E w \in Wids : FileOpenTriggered(w)
    \/ \E url \in FileUrls, index \in 1..MaxTabs : FileDialogAnswered(url, index)
    \/ \E w \in Wids, text \in UserInputs, index \in 1..MaxTabs :
          AddressReturnPressed(w, text, index)
    \/ \E w \in Wids, index \in 1..MaxTabs : _close_current_tab(w, index)

UiSpec == UiInit /\ [][UiNext]_vars

----------------------------------------------------------------------------
(* Find-in-page: the dialog, find next and previous, and the result *)

FindInPageNext ==
    \/ \E w \in Wids : FindActionTriggered(w)
    \/ \E search \in SearchTexts, ok \in BOOLEAN : FindDialogAnswered(search, ok)
    \/ \E w \in Wids : FindNext(w)
    \/ \E w \in Wids : FindPrevious(w)
    \/ \E w \in Wids, index \in 1..MaxTabs : _close_current_tab(w, index)
    \/ \E w \in Wids : _new_tab(w)
    \/ \E w \in Wids, result \in FindResults : FindTextFinished(w, result)
    \/ \E w \in Wids, m \in LinkTexts : LinkHovered(w, m)

FindSpec == UiInit /\ [][FindInPageNext]_vars

----------------------------------------------------------------------------
(* BrowserWindow: the toolbar and the actions that follow the web page *)

ProgressValues == {0, 1, 99, 100}
WebActions == {"Back", "Forward", "Reload", "Stop", "Copy"}

\* BrowserWindow.handle_web_view_load_progress; progress is the ghost
\* record of the value notified last
handle_web_view_load_progress(win, progress) ==
    IF 0 < progress /\ progress < 100
    THEN [win EXCEPT !.stop_reload = [data |-> Some("Stop"),
                                      icon |-> Some("_stop_icon"),
                                      tooltip |-> "Stop loading the current page"],
                     !.progress_bar = progress,
                     !.progress = Some(progress)]
    ELSE [win EXCEPT !.stop_reload = [data |-> Some("Reload"),
                                      icon |-> Some("_reload_icon"),
                                      tooltip |-> "Reload the current page"],
                     !.progress_bar = 0,
                     !.progress = Some(progress)]

\* QWebEnginePage.WebAction(a): the member for a member's value, an
\* exception for the None of an action that has no data
WebAction(a) ==
    IF a = None
    THEN [error |-> "ValueError", value |-> None]
    ELSE [error |-> "none", value |-> a]

\* BrowserWindow._stop_reload: the web action handed to
\* trigger_web_page_action, or the exception raised before the call
_stop_reload(win) == WebAction(win.stop_reload.data)

\* handle_web_action_enabled_changed with Reload and Stop exchanged
handle_web_action_enabled_changed_swapped(win, action, enabled) ==
    CASE action = "Back" ->
           [win |-> [win EXCEPT !.enabled._history_back_action = enabled],
            warning |-> None]
      [] action = "Forward" ->
           [win |-> [win EXCEPT !.enabled._history_forward_action = enabled],
            warning |-> None]
      [] action = "Reload" ->
           [win |-> [win EXCEPT !.enabled._stop_action = enabled],
            warning |-> None]
      [] action = "Stop" ->
           [win |-> [win EXCEPT !.enabled._reload_action = enabled],
            warning |-> None]
      [] OTHER ->
           [win |-> win,
            warning |-> Some(<<"SimpleWarning", "Unhandled webActionChanged signal",
                               action, enabled>>)]

\* BrowserWindow.handle_web_action_enabled_changed: the window after it
\* and the warning it issued
handle_web_action_enabled_changed(win, action, enabled) ==
    CASE action = "Back" ->
           [win |-> [win EXCEPT !.enabled._history_back_action = enabled],
            warning |-> None]
      [] action = "Forward" ->
           [win |-> [win EXCEPT !.enabled._history_forward_action = enabled],
            warning |-> None]
      [] action = "Reload" ->
           [win |-> [win EXCEPT !.enabled._reload_action = enabled],
            warning |-> None]
      [] action = "Stop" ->
           [win |-> [win EXCEPT !.enabled._stop_action = enabled],
            warning |-> None]
      [] OTHER ->
           [win |-> win,
            warning |-> Some(<<"SimpleWarning", "Unhandled webActionChanged signal",
                               action, enabled>>)]

\* TabWidget.load_progress reaches handle_web_view_load_progress
LoadProgress(w, progress) ==
    /\ objs[w].life = "open"
    /\ objs[w].kind = "BrowserWindow"
    /\ objs' = [objs EXCEPT ![w] = handle_web_view_load_progress(@, progress)]
    /\ last_ui' = [handler |-> "handle_web_view_load_progress", window |-> w,
                   arg |-> Some(progress), seq |-> 1 - last_ui.seq]
    /\ error' = "none"
    /\ UNCHANGED <<modal, windows, profile, named, dp_conn, lock, iter, last_close,
                   last_download, last_call, main>>

\* the combined stop/reload action of the toolbar is triggered
StopReloadTriggered(w) ==
    /\ objs[w].life = "open"
    /\ objs[w].kind = "BrowserWindow"
    /\ LET r == _stop_reload(objs[w])
       IN  /\ error' = r.error
           /\ last_ui' = [handler |-> "_stop_reload", window |-> w,
                          arg |-> r.value, seq |-> 1 - last_ui.seq]
    /\ UNCHANGED <<modal, windows, objs, profile, named, dp_conn, lock, iter,
                   last_close, last_download, last_call, main>>

\* TabWidget.web_action_enabled_changed reaches
\* handle_web_action_enabled_changed
WebActionEnabledChanged(w, action, enabled) ==
    /\ objs[w].life = "open"
    /\ objs[w].kind = "BrowserWindow"
    /\ LET r == handle_web_action_enabled_changed(objs[w], action, enabled)
       IN  /\ objs' = [objs EXCEPT ![w] = r.win]
           /\ last_ui' = [handler |-> "handle_web_action_enabled_changed",
                          window |-> w,
                          arg |-> Some([action |-> action, enabled |-> enabled,
                                        warning |-> r.warning]),
                          seq |-> 1 - last_ui.seq]
    /\ error' = "none"
    /\ UNCHANGED <<modal, windows, profile, named, dp_conn, lock, iter, last_close,
                   last_download, last_call, main>>

ToolbarNext ==
    \/ \E w \in Wids, progress \in ProgressValues : LoadProgress(w, progress)
    \/ \E w \in Wids : StopReloadTriggered(w)
    \/ \E w \in Wids, action \in WebActions, enabled \in BOOLEAN :
          WebActionEnabledChanged(w, action, enabled)

ToolbarSpec == UiInit /\ [][ToolbarNext]_vars

----------------------------------------------------------------------------
(* run_main: the command line *)

Prog == "simple"            \* sys.argv[0]

Tokens == {"-s", "--single-process", "--single", "--no-sandbox",
           "--webEngineArgs", "--", "-", "http://a"}

\* arguments that look like options to the parser
OptionLike == {"-s", "--single-process", "--single", "--no-sandbox",
               "--webEngineArgs"}

\* option strings the parser resolves to --single-process: the two declared
\* ones and an unambiguous abbreviation
SingleProcessFlags == {"-s", "--single-process", "--single"}

StdinData == {"", "<p>"}
ExitCodes == {0, 1, 2}

\* the arguments given when the whole run is followed: the option, a URL
\* and standard input
RunTokens == {"-s", "-", "http://a"}

RECURSIVE SeqsOver(_, _)
SeqsOver(tokens, n) ==
    IF n = 0 THEN {<<>>}
    ELSE LET shorter == SeqsOver(tokens, n - 1)
         IN  shorter \cup {Append(a, t) : a \in shorter, t \in tokens}

SeqsUpTo(n) == SeqsOver(Tokens, n)

RECURSIVE RemoveFirst(_, _)
RemoveFirst(seq, x) ==
    IF seq = <<>> THEN <<>>
    ELSE IF Head(seq) = x THEN Tail(seq)
    ELSE <<Head(seq)>> \o RemoveFirst(Tail(seq), x)

\* the parser's walk over the arguments: options are recognised up to the
\* first "--"; the first run of other arguments is the url list, later runs
\* are left over
RECURSIVE Walk(_, _, _, _)
Walk(args, seen, phase, acc) ==
    IF args = <<>> THEN acc
    ELSE LET t == Head(args)
         IN  IF ~seen /\ t \in OptionLike
             THEN Walk(Tail(args), seen,
                       IF phase = "in" THEN "after" ELSE phase,
                       IF t \in SingleProcessFlags
                       THEN [acc EXCEPT !.single_process = TRUE]
                       ELSE [acc EXCEPT !.rest = Append(@, t)])
             ELSE IF phase \in {"before", "in"}
                  THEN Walk(Tail(args), seen \/ t = "--", "in",
                            [acc EXCEPT !.url = Append(@, t)])
                  ELSE Walk(Tail(args), seen \/ t = "--", phase,
                            [acc EXCEPT !.rest = Append(@, t)])

\* parser.parse_known_args() for the parser run_main builds
parse_known_args(args) ==
    LET r == Walk(args, FALSE, "before",
                  [single_process |-> FALSE, url |-> <<>>, rest |-> <<>>])
    IN  [r EXCEPT !.url = RemoveFirst(@, "--")]

\* run_main passing the left-over arguments first
app_args_of_rest_first(single_process, rest_args) ==
    <<Prog>> \o rest_args
        \o (IF single_process THEN <<"--webEngineArgs", "--single-process">> ELSE <<>>)

\* the argument list run_main hands to QApplication
app_args_of(single_process, rest_args) ==
    <<Prog>>
        \o (IF single_process THEN <<"--webEngineArgs", "--single-process">> ELSE <<>>)
        \o rest_args

UrlTab(url) == [kind |-> "url", arg |-> url, background |-> TRUE, doomed |-> FALSE]
ContentTab(data) == [kind |-> "content", arg |-> data, background |-> TRUE, doomed |-> FALSE]

\* the loop body reading standard input whenever nothing has been read yet
url_step_falsy(content, url, data) ==
    IF url = "-"
    THEN IF content = None \/ content = Some("")
         THEN [content |-> Some(data), reads |-> 1, tabs |-> <<ContentTab(data)>>]
         ELSE [content |-> content, reads |-> 0, tabs |-> <<>>]
    ELSE [content |-> content, reads |-> 0, tabs |-> <<UrlTab(url)>>]

\* one pass of the loop over arg_urls: the new content, the reads of
\* standard input and the tabs opened
url_step(content, url, data) ==
    IF url = "-"
    THEN IF content = None
         THEN [content |-> Some(data), reads |-> 1, tabs |-> <<ContentTab(data)>>]
         ELSE [content |-> content, reads |-> 0, tabs |-> <<>>]
    ELSE [content |-> content, reads |-> 0, tabs |-> <<UrlTab(url)>>]

\* run_main leaving rc untouched in the except branch
exec_rc_unset(outcome) ==
    IF outcome.raised THEN [rc |-> 0, printed |-> 1] ELSE [rc |-> outcome.code, printed |-> 0]

\* rc and the tracebacks printed, for app.exec() returning or raising
exec_rc(outcome) ==
    IF outcome.raised THEN [rc |-> 1, printed |-> 1] ELSE [rc |-> outcome.code, printed |-> 0]

MainStart(argv, data) ==
    [pc |-> "parse", argv |-> argv, stdin |-> data,
     single_process |-> FALSE, url |-> <<>>, rest_args |-> <<>>, app_args |-> <<>>,
     content |-> None, stdin_reads |-> 0, i |-> 0,
     raised |-> FALSE, returned |-> 0, rc |-> 0, stderr |-> 0, exit_code |-> None]

MainStartsWith(argvs) ==
    /\ windows = <<>>
    /\ objs = <<>>
    /\ profile = 0
    /\ named = <<>>
    /\ dp_conn = 0
    /\ lock = Unlocked
    /\ iter = NoIter
    /\ last_close = NoClose
    /\ last_download = NoDownload
    /\ last_call = NoCall
    /\ error = "none"
    /\ last_ui = NoUi
    /\ modal = <<>>
    /\ \E argv \in argvs, data \in StdinData : main = MainStart(argv, data)

\* run_main is called with any command line
ArgsInit == MainStartsWith(SeqsUpTo(MaxArgs))

\* run_main is called with a command line of options, URLs and "-"
MainInit == MainStartsWith(SeqsOver(RunTokens, MaxRunArgs))

\* parse_known_args and the construction of app_args
ParseArgs ==
    /\ main.pc = "parse"
    /\ LET ns == parse_known_args(main.argv)
       IN  main' = [main EXCEPT !.pc = "browser",
                                !.single_process = ns.single_process,
                                !.url = ns.url,
                                !.rest_args = ns.rest,
                                !.app_args = app_args_of(ns.single_process, ns.rest)]
    /\ UNCHANGED <<modal, windows, objs, profile, named, dp_conn, lock, iter,
                   last_close, last_download, last_call, error, last_ui>>

\* browser = Browser(); window = browser.create_hidden_window()
CreateBrowser ==
    /\ main.pc = "browser"
    /\ dp_conn' = 1
    /\ \E a \in FreeAddrs :
          LET gp == get_profile(FALSE, profile, named, lock)
              added == _add_window(windows, gp.lock, Len(objs) + 1, a)
          IN  /\ objs' = Append(objs, Created("BrowserWindow", FALSE, FALSE, gp.ret, a))
              /\ windows' = added.windows
              /\ lock' = added.lock
              /\ profile' = gp.profile
              /\ named' = gp.named
    /\ main' = [main EXCEPT !.pc = "urls"]
    /\ UNCHANGED <<modal, iter, last_close, last_download, last_call, error, last_ui>>

\* if arg_urls: content = None; window.current_tab().deleteLater()
UrlsBranch ==
    /\ main.pc = "urls"
    /\ IF main.url # <<>>
       THEN /\ objs' = [objs EXCEPT ![1].tabs[1].doomed = TRUE]
            /\ main' = [main EXCEPT !.pc = "loop", !.i = 1, !.content = None]
       ELSE /\ objs' = objs
            /\ main' = [main EXCEPT !.pc = "show"]
    /\ UNCHANGED <<modal, windows, profile, named, dp_conn, lock, iter,
                   last_close, last_download, last_call, error, last_ui>>

\* one pass of: for url in arg_urls
LoopStep ==
    /\ main.pc = "loop"
    /\ LET r == url_step(main.content, main.url[main.i], main.stdin)
       IN  /\ objs' = [objs EXCEPT ![1].tabs = @ \o r.tabs]
           /\ main' = [main EXCEPT
                          !.content = r.content,
                          !.stdin_reads = @ + r.reads,
                          !.i = @ + 1,
                          !.pc = IF main.i = Len(main.url) THEN "show" ELSE "loop"]
    /\ UNCHANGED <<modal, windows, profile, named, dp_conn, lock, iter,
                   last_close, last_download, last_call, error, last_ui>>

\* window.show()
ShowWindow ==
    /\ main.pc = "show"
    /\ objs' = [objs EXCEPT ![1].visible = TRUE]
    /\ main' = [main EXCEPT !.pc = "exec"]
    /\ UNCHANGED <<modal, windows, profile, named, dp_conn, lock, iter,
                   last_close, last_download, last_call, error, last_ui>>

\* app.exec() is entered: the event loop starts
ExecStart ==
    /\ main.pc = "exec"
    /\ main' = [main EXCEPT !.pc = "running"]
    /\ UNCHANGED <<modal, windows, objs, profile, named, dp_conn, lock, iter,
                   last_close, last_download, last_call, error, last_ui>>

\* run_main is inside app.exec(): the event loop delivers events to the
\* slots of the window
Running == main.pc = "running"

\* the event loop deletes the initial tab, which run_main scheduled with
\* deleteLater() before the loop started: the tab leaves the tab widget
TabDeferredDelete(w) ==
    /\ objs[w].life # "deleted"
    /\ \E i \in 1..Len(objs[w].tabs) :
          /\ objs[w].tabs[i].doomed
          /\ objs' = [objs EXCEPT ![w].tabs = close_tab(@, i)]
    /\ error' = "none"
    /\ UNCHANGED <<modal, windows, profile, named, dp_conn, lock, iter,
                   last_close, last_download, last_call, last_ui, main>>

\* rc = app.exec() ends, returning a code or letting an exception escape;
\* the loops of the open dialogs have returned before
Exec(outcome) ==
    /\ Running
    /\ modal = <<>>
    /\ LET r == exec_rc(outcome)
       IN  main' = [main EXCEPT !.pc = "exit",
                                !.raised = outcome.raised,
                                !.returned = outcome.code,
                                !.rc = r.rc,
                                !.stderr = @ + r.printed]
    /\ UNCHANGED <<modal, windows, objs, profile, named, dp_conn, lock, iter,
                   last_close, last_download, last_call, error, last_ui>>

\* sys.exit(rc)
Exit ==
    /\ main.pc = "exit"
    /\ main' = [main EXCEPT !.pc = "done", !.exit_code = Some(main.rc)]
    /\ UNCHANGED <<modal, windows, objs, profile, named, dp_conn, lock, iter,
                   last_close, last_download, last_call, error, last_ui>>

ExecOutcomes == {[raised |-> FALSE, code |-> c] : c \in ExitCodes}
                    \cup {[raised |-> TRUE, code |-> 0]}

\* run_main from the command line to the call of app.exec()
ArgsNext ==
    \/ ParseArgs
    \/ CreateBrowser
    \/ UrlsBranch
    \/ LoopStep
    \/ ShowWindow

ArgsSpec == ArgsInit /\ [][ArgsNext]_vars

\* run_main from the command line to sys.exit(), with what the event loop
\* delivers to the window while app.exec() runs
MainNext ==
    \/ ArgsNext
    \/ ExecStart
    \/ Running /\ \E w \in Wids : TabDeferredDelete(w)
    \/ Running /\ \E w \in Wids : _new_tab(w)
    \/ Running /\ \E w \in Wids, index \in 1..MaxTabs : _close_current_tab(w, index)
    \/ Running /\ \E w \in Wids : closeEvent(w)
    \/ Running /\ \E answer \in {"Yes", "No"} : closeEventAnswered(answer)
    \/ Running /\ \E w \in Wids : DeferredDelete(w)
    \/ \E outcome \in ExecOutcomes : Exec(outcome)
    \/ Exit

MainSpec == MainInit /\ [][MainNext]_vars

----------------------------------------------------------------------------
(* Properties of the window registry *)

Registered == {windows[i][2] : i \in 1..Len(windows)}

Occurrences(w) == Cardinality({i \in 1..Len(windows) : windows[i][2] = w})

\* C1: the registry holds exactly the windows created by this Browser
\* whose close has not been accepted: each of them once, and no window
\* whose close was accepted.
C1_RegistryIsOpenWindows ==
    /\ Registered \subseteq Wids
    /\ \A w \in Wids :
          /\ objs[w].about_to_close = 0 => Occurrences(w) = 1
          /\ objs[w].about_to_close > 0 => Occurrences(w) = 0

\* a window was created at the address of a closed and deleted window and
\* is the only one registered
C1_Witness ==
    \E w1, w2 \in Wids :
        /\ w1 < w2
        /\ objs[w1].life = "deleted"
        /\ objs[w2].life = "open"
        /\ objs[w2].addr = objs[w1].addr
        /\ Registered = {w2}

\* the step ends a closeEvent of window w: its question was answered, or
\* the event was decided without a question
CloseHandled(w) ==
    \/ /\ Len(modal') < Len(modal)
       /\ modal[Len(modal)].kind = "closeEvent"
       /\ modal[Len(modal)].window = w
    \/ /\ modal' = modal
       /\ \/ objs'[w].about_to_close # objs[w].about_to_close
          \/ (last_close' # last_close /\ last_close'.window = w)

\* C2: a close event received with more than one tab asks first and
\* changes nothing until the answer; on No the event is ignored, nothing is
\* emitted or scheduled and the window stays registered with its tabs; the
\* window closes only on Yes; an event received with at most one tab
\* closes it without asking.
C2_CloseAfterConfirmation ==
    [][/\ \A w \in Wids :
             CloseHandled(w) =>
                 LET count == last_close'.count
                     answer == last_close'.answer
                     answered == Len(modal') < Len(modal)
                     closed == /\ objs'[w].life = "closing"
                               /\ objs'[w].about_to_close = objs[w].about_to_close + 1
                               /\ objs'[w].delete_later = objs[w].delete_later + 1
                               /\ w \notin {windows'[i][2] : i \in 1..Len(windows')}
                     kept == /\ ~last_close'.accepted
                             /\ objs'[w] = objs[w]
                             /\ windows' = windows
                             /\ w \in Registered
                 IN  /\ last_close'.window = w
                     /\ answered =>
                            /\ modal[Len(modal)] = [kind |-> "closeEvent", window |-> w,
                                                    count |-> count]
                            /\ modal' = SubSeq(modal, 1, Len(modal) - 1)
                     /\ ~answered => (modal' = modal /\ count = Len(objs[w].tabs))
                     /\ (count > 1) => (answered /\ answer \in {"Yes", "No"})
                     /\ (count > 1 /\ answer = "No") => kept
                     /\ (count > 1 /\ answer = "Yes") => closed
                     /\ (count <= 1) => (~answered /\ answer = "NotAsked" /\ closed)
       /\ \A w \in Wids :
             \* the question opens for the count read, and nothing else changes
             (Len(modal') > Len(modal) /\ modal'[Len(modal')].window = w
                /\ modal'[Len(modal')].kind = "closeEvent") =>
                 /\ modal'[Len(modal')].count = Len(objs[w].tabs)
                 /\ Len(objs[w].tabs) > 1
                 /\ objs' = objs /\ windows' = windows /\ last_close' = last_close
       /\ \A w \in Wids :
             \* a window closes in no other way
             (objs'[w].life = "closing" /\ objs[w].life = "open") =>
                 (CloseHandled(w) /\ last_close'.window = w
                    /\ last_close'.accepted)
      ]_vars

\* the user answered No to the question about two tabs, one of which was
\* closed and a second window created while the question was open
C2_Witness ==
    /\ last_close.answer = "No"
    /\ last_close.count = 2
    /\ last_close.window \in Registered
    /\ objs[last_close.window].life = "open"
    /\ Len(objs[last_close.window].tabs) = 1
    /\ Len(windows) = 2
    /\ modal = <<>>

----------------------------------------------------------------------------
(* Properties of the profiles *)

\* C6: get_profile(False) always returns the one named profile, created and
\* configured at most once; get_profile(True) returns the default profile;
\* the two differ, so a private window never shares its profile with a
\* normal one.
C6_TwoSessions ==
    /\ Len(named) <= 1
    /\ \A n \in 1..Len(named) : named[n].configured = 1
    /\ profile = Len(named)
    /\ (last_call # NoCall /\ last_call.private) => last_call.ret = DefaultProfile
    /\ (last_call # NoCall /\ ~last_call.private) =>
           (last_call.ret = profile /\ last_call.ret # DefaultProfile)
    /\ \A w \in Wids :
          /\ objs[w].private => objs[w].profile = DefaultProfile
          /\ ~objs[w].private =>
                 (objs[w].profile = profile /\ objs[w].profile # DefaultProfile)
    /\ \A w1, w2 \in Wids :
          (objs[w1].private /\ ~objs[w2].private) =>
              objs[w1].profile # objs[w2].profile

\* a normal window and a private one exist and get_profile(False) was
\* called again
C6_Witness ==
    /\ last_call # NoCall
    /\ ~last_call.private
    /\ \E w1, w2 \in Wids :
          /\ ~objs[w1].private
          /\ objs[w2].private

\* C7: a download request of a profile handed to the windows reaches the
\* download manager widget exactly once: one connection per profile.
C7_DownloadDeliveredOnce ==
    /\ dp_conn = 1
    /\ \A n \in 1..Len(named) : named[n].connections = 1
    /\ last_download # NoDownload => last_download.delivered = 1

\* the named profile raised a download after two windows were created with
\* it, one of them closed since, and after a direct get_profile call
C7_Witness ==
    /\ last_download # NoDownload
    /\ last_download.profile # DefaultProfile
    /\ last_call # NoCall
    /\ \E w1, w2 \in Wids :
          /\ w1 # w2
          /\ objs[w1].profile = last_download.profile
          /\ objs[w2].profile = last_download.profile
          /\ objs[w1].life # "open"

----------------------------------------------------------------------------
(* Properties of the iteration *)

\* C8: the lock is held for as long as an iteration over the registry is
\* in progress and every acquisition is released again, so that no handler
\* and no iteration that has ended leaves it held; and while an iteration
\* is in progress the registry is neither added to nor removed from,
\* whatever window is created or closed meanwhile.
C8_RegistryStableDuringIteration ==
    /\ [](iter.active => lock = [owner |-> UiThread, depth |-> 1])
    /\ [](~iter.active => lock = Unlocked)
    /\ [][iter.active => windows' = windows]_vars

----------------------------------------------------------------------------
(* Properties of the window handlers *)

\* C9: at construction and after every title-changed notification the
\* window title is "<title> - <suffix>" for a non-empty title and "<suffix>"
\* for an empty or absent one; the suffix is "Simple (Incognito)" for an
\* off-the-record profile and "Simple" otherwise.
C9_WindowTitle ==
    \A w \in Wids :
        LET suffix == IF objs[w].profile = DefaultProfile
                      THEN "Simple (Incognito)" ELSE "Simple"
            t == objs[w].title_arg
        IN  /\ (t = None \/ t = Some("")) => objs[w].title = suffix
            /\ (t # None /\ t # Some("")) =>
                   objs[w].title = t[1] \o " - " \o suffix

\* a private window was notified of the title "Qt" and a normal window of
\* an empty title
C9_Witness ==
    \E w1, w2 \in Wids :
        /\ objs[w1].private
        /\ objs[w1].title_arg = Some("Qt")
        /\ ~objs[w2].private
        /\ objs[w2].title_arg = Some("")
        /\ last_ui.handler = "handle_web_view_title_changed"

\* C10: after a find-text-finished notification the status bar shows
\* '"<last search>" not found.' for zero matches and
\* '"<last search>" found: <active>/<number>' otherwise, and the handler
\* raised nothing.
C10_FindStatus ==
    last_ui.handler = "handle_find_text_finished" =>
        LET win == objs[last_ui.window]
            result == last_ui.arg[1]
        IN  /\ error = "none"
            /\ result.numberOfMatches = 0 =>
                   win.status = "\"" \o win.last_search \o "\" not found."
            /\ result.numberOfMatches # 0 =>
                   win.status = "\"" \o win.last_search \o "\" found: "
                                \o ToString(result.activeMatch) \o "/"
                                \o ToString(result.numberOfMatches)

----------------------------------------------------------------------------
(* Properties of run_main *)

Elems(seq) == {seq[i] : i \in 1..Len(seq)}

Finished == main.pc = "done"

\* C3: an exception escaping app.exec() is caught, its traceback printed
\* and the process exits with code 1; when app.exec() returns, the process
\* exits with the code it returned.
C3_ExitCode ==
    Finished =>
        /\ main.raised => (main.stderr = 1 /\ main.exit_code = Some(1))
        /\ ~main.raised => (main.stderr = 0 /\ main.exit_code = Some(main.returned))

\* the event loop raised and the process has exited
C3_Witness ==
    /\ Finished
    /\ main.raised
    /\ main.exit_code # None

\* the option is given as an option: before any "--"
Recognised(argv) ==
    \E i \in 1..Len(argv) :
        /\ argv[i] \in SingleProcessFlags
        /\ \A j \in 1..(i - 1) : argv[j] # "--"

RECURSIVE IsSubsequence(_, _)
IsSubsequence(sub, seq) ==
    IF sub = <<>> THEN TRUE
    ELSE IF seq = <<>> THEN FALSE
    ELSE IF Head(sub) = Head(seq) THEN IsSubsequence(Tail(sub), Tail(seq))
    ELSE IsSubsequence(sub, Tail(seq))

Parsed == main.pc \notin {"none", "parse"}

\* C4 as stated: the list contains --single-process exactly when
\* --single-process or -s (or an abbreviation the parser takes for it) was
\* given; the program name comes first and the unrecognised arguments
\* follow unchanged and in order.
C4_AsStated ==
    Parsed =>
        /\ ("--single-process" \in Elems(main.app_args))
               <=> (Elems(main.argv) \cap SingleProcessFlags # {})
        /\ main.app_args[1] = Prog
        /\ SubSeq(main.app_args, Len(main.app_args) - Len(main.rest_args) + 1,
                  Len(main.app_args)) = main.rest_args

\* position i of the command line is read as an option: it looks like one
\* and no "--" comes before it
IsOption(argv, i) ==
    /\ argv[i] \in OptionLike
    /\ \A j \in 1..(i - 1) : argv[j] # "--"

\* position i is in the first run of arguments that are not options: these
\* are the URLs
InFirstRun(argv, i) ==
    /\ ~IsOption(argv, i)
    /\ \E f \in 1..i :
          /\ \A j \in 1..(f - 1) : IsOption(argv, j)
          /\ \A j \in f..i : ~IsOption(argv, j)

\* the arguments left over, in their order: the options other than the
\* recognised one, and what is not an option and comes after the first run
\* was ended by an option, "--" and what follows it included
LeftOver(argv) ==
    LET left(i) == IF IsOption(argv, i)
                   THEN argv[i] \notin SingleProcessFlags
                   ELSE ~InFirstRun(argv, i)
        idx == SelectSeq([i \in 1..Len(argv) |-> i], left)
    IN  [k \in 1..Len(idx) |-> argv[idx[k]]]

\* C4 (amended): the program name comes first; it is directly followed by
\* the pair --webEngineArgs --single-process exactly when the parser
\* recognised the option, that is when it occurs before any "--"; then
\* come exactly the arguments the parser left over, unchanged and in their
\* order: the other options given before "--", and every argument that is
\* not an option and comes after the first run of such arguments (the
\* URLs) was ended by an option, "--" and what follows it included.
C4_SingleProcessForwarded ==
    Parsed =>
        LET args == main.app_args
            pair == /\ Len(args) >= 3
                    /\ args[2] = "--webEngineArgs"
                    /\ args[3] = "--single-process"
            k == IF Recognised(main.argv) THEN 3 ELSE 1
        IN  /\ args[1] = Prog
            /\ pair <=> Recognised(main.argv)
            /\ main.single_process <=> Recognised(main.argv)
            /\ Len(args) = k + Len(main.rest_args)
            /\ SubSeq(args, k + 1, Len(args)) = main.rest_args
            /\ IsSubsequence(main.rest_args, main.argv)
            /\ main.rest_args = LeftOver(main.argv)
            /\ \A t \in OptionLike \ SingleProcessFlags :
                   (\E i \in 1..Len(main.argv) :
                        main.argv[i] = t /\ \A j \in 1..(i - 1) : main.argv[j] # "--")
                       => t \in Elems(main.rest_args)

\* an unknown option ended the URLs, and a --single-process given after
\* "--" is passed through with it although the option was not recognised
C4_Witness ==
    /\ Parsed
    /\ main.argv = <<"http://a", "--no-sandbox", "--", "--single-process">>
    /\ ~main.single_process
    /\ main.url = <<"http://a">>
    /\ main.app_args = <<Prog, "--no-sandbox", "--", "--single-process">>

RECURSIVE ExpectedTabs(_, _, _)
ExpectedTabs(urls, data, dashSeen) ==
    IF urls = <<>> THEN <<>>
    ELSE IF Head(urls) = "-"
         THEN (IF dashSeen THEN <<>> ELSE <<ContentTab(data)>>)
                  \o ExpectedTabs(Tail(urls), data, TRUE)
         ELSE <<UrlTab(Head(urls))>> \o ExpectedTabs(Tail(urls), data, dashSeen)

\* C5: when run_main calls app.exec(), the start-up has left this: without
\* URL arguments the window keeps its initial tab; with some,
\* the initial tab is scheduled for deletion and the arguments open, in
\* order, one background tab per URL and one background content tab for all
\* the "-" together, standard input being read at most once; the window is
\* shown only after all the tabs were created.
C5_UrlArguments ==
    /\ main.pc = "exec" =>
          LET win == objs[1]
          IN  /\ win.visible
              /\ main.url = <<>> => (win.tabs = <<BlankTab>> /\ main.stdin_reads = 0)
              /\ main.url # <<>> =>
                    /\ win.tabs = <<[BlankTab EXCEPT !.doomed = TRUE]>>
                                      \o ExpectedTabs(main.url, main.stdin, FALSE)
                    /\ main.stdin_reads = (IF "-" \in Elems(main.url) THEN 1 ELSE 0)
                    /\ Cardinality({i \in 1..Len(win.tabs) : win.tabs[i].kind = "content"})
                           = main.stdin_reads
    /\ main.pc \in {"urls", "loop", "show"} => ~objs[1].visible
    /\ main.pc = "loop" =>
          objs[1].tabs = <<[BlankTab EXCEPT !.doomed = TRUE]>>
                             \o ExpectedTabs(SubSeq(main.url, 1, main.i - 1), main.stdin, FALSE)

\* "-" was given twice around a URL with empty standard input, and the
\* window is shown
C5_Witness ==
    /\ main.pc = "exec"
    /\ main.url = <<"-", "http://a", "-">>
    /\ main.stdin = ""
    /\ Len(objs[1].tabs) = 3

----------------------------------------------------------------------------
(* Frame of an accepted close *)

\* the registry without the entries of window w, the others in their order
RegistryWithout(reg, w) == SelectSeq(reg, LAMBDA e : e[2] # w)

\* C11: an accepted close emits about_to_close and removes only the entry
\* of the window that emitted it; the other windows stay registered and
\* unchanged, and for a window that is not registered nothing changes in
\* the registry.
C11_CloseRemovesOnlySender ==
    [][\A w \in Wids :
          (CloseHandled(w) /\ last_close'.window = w /\ last_close'.accepted) =>
              /\ objs'[w].about_to_close = objs[w].about_to_close + 1
              /\ windows' = RegistryWithout(windows, w)
              /\ \A v \in Wids \ {w} : objs'[v] = objs[v]
              /\ w \notin Registered => windows' = windows
      ]_vars

\* a window accepted a second close, already unregistered, while another
\* window is registered
C11_Witness ==
    /\ last_close.accepted
    /\ last_close.window \in Wids
    /\ objs[last_close.window].about_to_close = 2
    /\ \E v \in Wids : v # last_close.window /\ Registered = {v}

----------------------------------------------------------------------------
(* Find-in-page *)

\* the step started a search for text in the given direction
SearchStarted(w, text, backward) ==
    /\ objs'[w].find # objs[w].find
    /\ objs'[w].find # None
    /\ objs'[w].find[1].text = text
    /\ objs'[w].find[1].backward = backward

----------------------------------------------------------------------------
(* Properties of the toolbar *)

\* the three attributes of the stop/reload action in each mode
StopMode == [data |-> Some("Stop"), icon |-> Some("_stop_icon"),
             tooltip |-> "Stop loading the current page"]
ReloadMode == [data |-> Some("Reload"), icon |-> Some("_reload_icon"),
               tooltip |-> "Reload the current page"]

\* C13: once load progress was notified, the stop/reload action is in Stop
\* mode with the progress bar at the value notified last exactly when that
\* value is strictly between 0 and 100, and in Reload mode with the bar at
\* 0 otherwise; triggering the action always runs the web action of its
\* mode.
C13_StopReloadMode ==
    \A w \in Wids :
        objs[w].kind = "BrowserWindow" =>
            /\ objs[w].progress # None =>
                   LET p == objs[w].progress[1]
                   IN  IF 0 < p /\ p < 100
                       THEN objs[w].stop_reload = StopMode /\ objs[w].progress_bar = p
                       ELSE objs[w].stop_reload = ReloadMode /\ objs[w].progress_bar = 0
            /\ (last_ui.handler = "_stop_reload" /\ last_ui.window = w) =>
                   /\ error = "none"
                   /\ objs[w].stop_reload \in {StopMode, ReloadMode}
                   /\ last_ui.arg = objs[w].stop_reload.data

\* C16: a web-action-enabled-changed notification for Back, Forward, Reload
\* or Stop sets the enabled state of the matching UI action to the value
\* reported and leaves the other three as they were; for any other web
\* action none of the four changes and a SimpleWarning is issued.
C16_EnabledFollowsWebAction ==
    [][\A w \in Wids :
          (last_ui'.seq # last_ui.seq /\ last_ui'.window = w
             /\ last_ui'.handler = "handle_web_action_enabled_changed") =>
              LET a == last_ui'.arg[1]
                  names == DOMAIN objs[w].enabled
                  target == CASE a.action = "Back" -> {"_history_back_action"}
                              [] a.action = "Forward" -> {"_history_forward_action"}
                              [] a.action = "Reload" -> {"_reload_action"}
                              [] a.action = "Stop" -> {"_stop_action"}
                              [] OTHER -> {}
              IN  /\ \A n \in target : objs'[w].enabled[n] = a.enabled
                  /\ \A n \in names \ target :
                         objs'[w].enabled[n] = objs[w].enabled[n]
                  /\ (target = {}) <=> (a.warning # None)
                  /\ a.warning # None => a.warning[1][1] = "SimpleWarning"
                  /\ error' = "none"
      ]_vars

\* the stop action alone was disabled by a notification for Stop while the
\* reload action was already disabled
C16_Witness ==
    /\ last_ui.handler = "handle_web_action_enabled_changed"
    /\ last_ui.arg[1].action = "Stop"
    /\ ~last_ui.arg[1].enabled
    /\ objs[last_ui.window].enabled =
           [_history_back_action |-> TRUE, _history_forward_action |-> TRUE,
            _reload_action |-> FALSE, _stop_action |-> FALSE]

----------------------------------------------------------------------------
(* Properties of the menus *)

\* C14: each time the File menu is about to show, the text of the close
\* action becomes "Quit" exactly when the window is the only one left in
\* the registry, and "Close Window" when other windows are open.
C14_CloseActionText ==
    [][\A w \in Wids :
          (last_ui'.seq # last_ui.seq /\ last_ui'.window = w
             /\ last_ui'.handler = "_update_close_action_text") =>
              objs'[w].close_action =
                  IF Registered' = {w} THEN "Quit" ELSE "Close Window"
      ]_vars

\* C15: a populated Window menu holds one checkable entry per registered
\* window, in registry order, with the entry of the populating window
\* alone checked; and triggering an entry whose window is still open
\* activates that window, whatever was created or closed since the menu
\* was populated.
C15_WindowMenu ==
    [][/\ (last_ui'.seq # last_ui.seq
             /\ last_ui'.handler = "_populate_window_menu") =>
              LET self == last_ui'.window
                  menu == objs'[self].window_menu
              IN  /\ Len(menu) = Len(windows')
                  /\ \A i \in 1..Len(menu) :
                         /\ menu[i].checkable
                         /\ menu[i].window = windows'[i][2]
                         /\ menu[i].checked <=> (menu[i].window = self)
       /\ (last_ui'.seq # last_ui.seq
             /\ last_ui'.handler = "handle_show_window_triggered") =>
              LET a == last_ui'.arg[1]
              IN  objs[a.action.window].life = "open" =>
                      /\ error' = "none"
                      /\ a.activated = Some(a.action.window)
      ]_vars

====
